---- MODULE Spec2Model ----
(***************************************************************************)
(* Scoops & Smiles (DataScoop.py): the inventory ledger, the purchase and  *)
(* sale recorders, the location catalog, the monthly reports and the       *)
(* customer's cart, as a state machine over the rows of the SQLite tables. *)
(*                                                                         *)
(* Money is kept in cents and the REAL column avg_cost_per_oz as an exact  *)
(* fraction <<numerator, denominator>> of cents per ounce; ounces_on_hand  *)
(* only ever holds whole numbers.                                          *)
(***************************************************************************)
EXTENDS Integers, Sequences, FiniteSets, TLC

VARIABLES locations, ledger, purchases, sales, last, conn, pending, writer,
          report, cart

dbvars == <<locations, ledger, purchases, sales>>
uivars == <<report, cart>>
vars == <<locations, ledger, purchases, sales, last, conn, pending, writer,
          report, cart>>

(***************************************************************************)
(* Bounds of the exploration: the number of event rows the logs may hold   *)
(* (one caller, two connections), the number of locations, and the largest *)
(* container count of a purchase.  A call that would go past a bound is    *)
(* not made.                                                               *)
(***************************************************************************)
MaxEvents == 2
MaxConcEvents == 3
MaxLocations == 2
MaxContainers == 2

(***************************************************************************)
(* Business constants.                                                     *)
(***************************************************************************)
OZ_PER_CONTAINER == 5 * 128

\* the table with a fifth size in it
SCOOPS_OZ_WithJumbo ==
  [Kiddie |-> 4, Small |-> 8, Medium |-> 12, Large |-> 16, Jumbo |-> 20]

SCOOPS_OZ == [Kiddie |-> 4, Small |-> 8, Medium |-> 12, Large |-> 16]

\* flavors table as seeded by init_db: id = position, cost in cents
FLAVORS ==
  << [name |-> "Vanilla", cost_per_container |-> 200],
     [name |-> "Chocolate", cost_per_container |-> 200],
     [name |-> "Neapolitan", cost_per_container |-> 250],
     [name |-> "Cookies & Cream", cost_per_container |-> 300],
     [name |-> "Cookie Dough", cost_per_container |-> 300] >>

FlavorIds == DOMAIN FLAVORS

\* containers table as seeded by init_db: id = position
CONTAINERS ==
  << [name |-> "Standard Cone", price_per_pack |-> 500, units_per_pack |-> 100],
     [name |-> "Waffle Cone", price_per_pack |-> 600, units_per_pack |-> 100],
     [name |-> "Dish w/ Spoon", price_per_pack |-> 450, units_per_pack |-> 100] >>

(***************************************************************************)
(* Arguments the callers are given.                                        *)
(***************************************************************************)
Whitespace == {" "}

NameArgs == { <<"A">>, <<" ", "A", " ">>, <<"B">> }

LocArgs == {1, 2}

FlavorArgs == {1, Len(FLAVORS) + 1}

ContainerArgs == (-1) .. MaxContainers

SizeArgs == {"Large", "Jumbo"}

ContainerTypeArgs == {1}

QtyArgs == {-1, 0, 40}

DateArgs == {"2025-01-31"}

(***************************************************************************)
(* Exact fractions.                                                        *)
(***************************************************************************)
Abs(x) == IF x < 0 THEN -x ELSE x

RECURSIVE GCD(_, _)
GCD(a, b) == IF b = 0 THEN a ELSE GCD(b, a % b)

Frac(n, d) ==
  LET g == GCD(Abs(n), Abs(d))
      s == IF d < 0 THEN -1 ELSE 1
  IN  IF n = 0 THEN <<0, 1>> ELSE <<s * (n \div g), s * (d \div g)>>

Zero == <<0, 1>>

\* x * q for an integer x and a fraction q
FracTimes(x, q) == Frac(x * q[1], q[2])

\* q + x for a fraction q and an integer x
FracPlus(q, x) == Frac(q[1] + x * q[2], q[2])

\* q / x for a fraction q and a non-zero integer x
FracOver(q, x) == Frac(q[1], q[2] * x)

(***************************************************************************)
(* str.strip() on a name given as a sequence of characters.                *)
(***************************************************************************)
RECURSIVE lstrip(_)
lstrip(s) ==
  IF s # <<>> /\ Head(s) \in Whitespace THEN lstrip(Tail(s)) ELSE s

RECURSIVE rstrip(_)
rstrip(s) ==
  IF s # <<>> /\ s[Len(s)] \in Whitespace
  THEN rstrip(SubSeq(s, 1, Len(s) - 1))
  ELSE s

strip(s) == rstrip(lstrip(s))

(***************************************************************************)
(* Rows and keys.                                                          *)
(***************************************************************************)
Key(location_id, flavor_id) == <<location_id, flavor_id>>

ZeroEntry == [ounces_on_hand |-> 0, avg_cost_per_oz |-> Zero]

\* the INSERT with the cost column left at zero
PurchaseRow_NoCost(location_id, flavor_id, purchase_date, containers, cost) ==
  [location_id |-> location_id, flavor_id |-> flavor_id,
   purchase_date |-> purchase_date, containers |-> containers,
   cost_per_container |-> 0]

PurchaseRow(location_id, flavor_id, purchase_date, containers, cost) ==
  [location_id |-> location_id, flavor_id |-> flavor_id,
   purchase_date |-> purchase_date, containers |-> containers,
   cost_per_container |-> cost]

SaleRow(location_id, flavor_id, sale_date, size, container_type_id, quantity) ==
  [location_id |-> location_id, flavor_id |-> flavor_id,
   sale_date |-> sale_date, size |-> size,
   container_type_id |-> container_type_id, quantity |-> quantity]

NoCall == [op |-> "none", result |-> "none"]

Idle == [pc |-> "idle"]

\* the tables as a connection sees them inside its open transaction
Tables(locs, led, pur, sal) ==
  [locations |-> locs, ledger |-> led, purchases |-> pur, sales |-> sal]

NoPending == Tables(<<>>, <<>>, <<>>, <<>>)

Events == Len(purchases) + Len(sales)

\* no report call has been made since the tables last changed
NoReport == [op |-> "none"]

(***************************************************************************)
(* add_location                                                            *)
(***************************************************************************)
\* the name column without its UNIQUE constraint
NameTaken_NoUnique(locs, name) == FALSE


NameTaken(locs, name) == \E i \in DOMAIN locs : locs[i] = name

\* INSERT OR IGNORE of a zero row for every flavor at location loc_id
WithZeroEntries(led, loc_id) ==
  [k \in DOMAIN led \cup {Key(loc_id, f) : f \in FlavorIds} |->
      IF k \in DOMAIN led THEN led[k] ELSE ZeroEntry]

AddLocation(name) ==
  /\ UNCHANGED <<purchases, sales, conn, pending, writer>>
  /\ IF NameTaken(locations, strip(name))
     THEN /\ last' = [op |-> "add_location", result |-> "False"]
          /\ UNCHANGED <<locations, ledger>>
     ELSE /\ Len(locations) < MaxLocations
          /\ locations' = Append(locations, strip(name))
          /\ ledger' = WithZeroEntries(ledger, Len(locations) + 1)
          /\ last' = [op |-> "add_location", result |-> "True"]

(***************************************************************************)
(* record_purchase                                                         *)
(***************************************************************************)
ReadEntry(led, k) == IF k \in DOMAIN led THEN led[k] ELSE ZeroEntry

\* the purchase step with the value of the stock already held left out
PurchasedEntry_NoOldCost(old, containers, cost_per_container) ==
  LET added_oz == containers * OZ_PER_CONTAINER
      added_cost == containers * cost_per_container
      new_oz == old.ounces_on_hand + added_oz
      new_avg == IF new_oz > 0 THEN Frac(added_cost, new_oz) ELSE Zero
  IN  [ounces_on_hand |-> new_oz, avg_cost_per_oz |-> new_avg]

\* lines 253-270: the entry after adding `containers` containers bought at
\* cost_per_container to the entry old
\* lines 268-270 dividing the cost by the containers on hand, not the ounces
PurchasedEntry_PerContainer(old, containers, cost_per_container) ==
  LET added_oz == containers * OZ_PER_CONTAINER
      added_cost == containers * cost_per_container
      old_cost == FracTimes(old.ounces_on_hand, old.avg_cost_per_oz)
      new_oz == old.ounces_on_hand + added_oz
      new_avg == IF new_oz > 0
                 THEN Frac(FracPlus(old_cost, added_cost)[1] * OZ_PER_CONTAINER,
                           FracPlus(old_cost, added_cost)[2] * new_oz)
                 ELSE Zero
  IN  [ounces_on_hand |-> new_oz, avg_cost_per_oz |-> new_avg]

\* the UPDATE with the delivered ounces in place of the new total
PurchasedEntry_Overwrite(old, containers, cost_per_container) ==
  LET added_oz == containers * OZ_PER_CONTAINER
      added_cost == containers * cost_per_container
      new_avg == IF added_oz > 0 THEN Frac(added_cost, added_oz) ELSE Zero
  IN  [ounces_on_hand |-> added_oz, avg_cost_per_oz |-> new_avg]

PurchasedEntry(old, containers, cost_per_container) ==
  LET added_oz == containers * OZ_PER_CONTAINER
      added_cost == containers * cost_per_container
      old_cost == FracTimes(old.ounces_on_hand, old.avg_cost_per_oz)
      new_oz == old.ounces_on_hand + added_oz
      new_avg == IF new_oz > 0
                 THEN FracOver(FracPlus(old_cost, added_cost), new_oz)
                 ELSE Zero
  IN  [ounces_on_hand |-> new_oz, avg_cost_per_oz |-> new_avg]

\* the ledger after the INSERT (when the row is missing) and the UPDATE
\* lines 268-274 leaving avg_cost_per_oz as it was when nothing is on hand
LedgerAfterPurchase_KeepCost(led, location_id, flavor_id, containers) ==
  LET k == Key(location_id, flavor_id)
      old == ReadEntry(led, k)
      new == PurchasedEntry(old, containers, FLAVORS[flavor_id].cost_per_container)
      kept == IF new.ounces_on_hand > 0 THEN new
              ELSE [new EXCEPT !.avg_cost_per_oz = old.avg_cost_per_oz]
  IN  [j \in DOMAIN led \cup {k} |-> IF j = k THEN kept ELSE led[j]]

LedgerAfterPurchase(led, location_id, flavor_id, containers) ==
  LET k == Key(location_id, flavor_id)
      new == PurchasedEntry(ReadEntry(led, k), containers,
                            FLAVORS[flavor_id].cost_per_container)
  IN  [j \in DOMAIN led \cup {k} |-> IF j = k THEN new ELSE led[j]]

RecordPurchase(location_id, flavor_id, containers, purchase_date) ==
  /\ UNCHANGED <<locations, conn, pending, writer>>
  /\ IF flavor_id \notin FlavorIds
     THEN \* cur.fetchone() is None: TypeError before anything is written
          /\ last' = [op |-> "record_purchase", result |-> "TypeError"]
          /\ UNCHANGED <<ledger, purchases, sales>>
     ELSE /\ Events < MaxEvents
          /\ purchases' = Append(purchases,
                 PurchaseRow(location_id, flavor_id, purchase_date, containers,
                             FLAVORS[flavor_id].cost_per_container))
          /\ ledger' = LedgerAfterPurchase(ledger, location_id, flavor_id, containers)
          /\ last' = [op |-> "record_purchase", result |-> "ok"]
          /\ UNCHANGED sales

(***************************************************************************)
(* record_sale                                                             *)
(***************************************************************************)
OnHand(led, k) == IF k \in DOMAIN led THEN led[k].ounces_on_hand ELSE 0

\* the sufficiency check refusing only a stock that is already negative
Insufficient_NegativeOnly(on_hand, oz_needed) == on_hand < 0


Insufficient(on_hand, oz_needed) == on_hand < oz_needed

\* the sale's UPDATE also resetting the average cost of a sold-out entry
LedgerAfterSale_ResetCost(led, k, new_on_hand) ==
  IF k \in DOMAIN led
  THEN [led EXCEPT ![k] =
          [ounces_on_hand |-> new_on_hand,
           avg_cost_per_oz |-> IF new_on_hand = 0 THEN Zero ELSE @.avg_cost_per_oz]]
  ELSE led

\* UPDATE inventory_state SET ounces_on_hand=? WHERE location_id=? AND flavor_id=?
LedgerAfterSale(led, k, new_on_hand) ==
  IF k \in DOMAIN led
  THEN [led EXCEPT ![k].ounces_on_hand = new_on_hand]
  ELSE led

RecordSale(location_id, flavor_id, size, container_type_id, quantity, sale_date) ==
  /\ UNCHANGED <<locations, purchases, conn, pending, writer>>
  /\ IF size \notin DOMAIN SCOOPS_OZ
     THEN /\ last' = [op |-> "record_sale", result |-> "Invalid size"]
          /\ UNCHANGED <<ledger, sales>>
     ELSE LET oz_needed == SCOOPS_OZ[size] * quantity
              k == Key(location_id, flavor_id)
              on_hand == OnHand(ledger, k)
          IN  IF Insufficient(on_hand, oz_needed)
              THEN /\ last' = [op |-> "record_sale",
                               result |-> "Insufficient inventory for this sale."]
                   /\ UNCHANGED <<ledger, sales>>
              ELSE /\ Events < MaxEvents
                   /\ sales' = Append(sales,
                          SaleRow(location_id, flavor_id, sale_date, size,
                                  container_type_id, quantity))
                   /\ ledger' = LedgerAfterSale(ledger, k, on_hand - oz_needed)
                   /\ last' = [op |-> "record_sale", result |-> "ok"]

(***************************************************************************)
(* One caller at a time: every call runs to completion.                    *)
(***************************************************************************)
Init ==
  /\ locations = <<>>
  /\ ledger = [k \in {} |-> ZeroEntry]
  /\ purchases = <<>>
  /\ sales = <<>>
  /\ last = NoCall
  /\ conn = [c \in {1, 2} |-> Idle]
  /\ pending = NoPending
  /\ writer = 0
  /\ report = NoReport
  /\ cart = <<>>

DoAddLocation ==
  /\ \E name \in NameArgs : AddLocation(name)
  /\ UNCHANGED uivars

DoRecordPurchase ==
  /\ \E l \in LocArgs, f \in FlavorArgs, n \in ContainerArgs, d \in DateArgs :
       RecordPurchase(l, f, n, d)
  /\ UNCHANGED uivars

DoRecordSale ==
  /\ \E l \in LocArgs, f \in FlavorArgs, s \in SizeArgs, ct \in ContainerTypeArgs,
        q \in QtyArgs, d \in DateArgs :
       RecordSale(l, f, s, ct, q, d)
  /\ UNCHANGED uivars

Next ==
  \/ DoAddLocation
  \/ DoRecordPurchase
  \/ DoRecordSale

Spec == Init /\ [][Next]_vars

(***************************************************************************)
(* Two connections: every call runs statement by statement on a connection *)
(* of its own.  A SELECT outside a transaction reads the committed tables. *)
(* The first INSERT of a call opens a transaction and takes the database   *)
(* write lock; until the commit its writes are seen by that connection     *)
(* only, and a rollback discards them.  A connection that finds the lock   *)
(* taken waits, and gives up with "database is locked" when the wait times *)
(* out.                                                                    *)
(***************************************************************************)
Conns == {1, 2}

ConcNameArgs == { <<"A">>, <<"A", " ">> }

ConcLocArgs == {1}

ConcFlavorArgs == {1}

ConcContainerArgs == {1}

ConcSizeArgs == {"Large"}

ConcQtyArgs == {-1, 40}

Finish(c, op, result) ==
  /\ conn' = [conn EXCEPT ![c] = Idle]
  /\ last' = [op |-> op, result |-> result]

\* con.commit(): the transaction's writes become the committed tables
Commit(c) ==
  /\ conn[c].pc = "commit"
  /\ writer = c
  /\ locations' = pending.locations
  /\ ledger' = pending.ledger
  /\ purchases' = pending.purchases
  /\ sales' = pending.sales
  /\ pending' = NoPending
  /\ writer' = 0
  /\ Finish(c, conn[c].op, conn[c].result)
  /\ UNCHANGED uivars

\* an exception inside the with block: the connection rolls back
Rollback(c) ==
  /\ writer = c
  /\ pending' = NoPending
  /\ writer' = 0
  /\ Finish(c, conn[c].op, "rolled back")
  /\ UNCHANGED dbvars
  /\ UNCHANGED uivars

\* the write lock is taken and the wait for it times out
LockTimeout(c) ==
  /\ conn[c].pc \in {"p_insert", "s_insert", "l_entries"}
  /\ writer # 0
  /\ Finish(c, conn[c].op, "database is locked")
  /\ UNCHANGED <<locations, ledger, purchases, sales, pending, writer>>
  /\ UNCHANGED uivars

\* record_purchase, lines 242-245: look the flavor's cost up
PurchaseSelectCost(c, location_id, flavor_id, containers, purchase_date) ==
  /\ conn[c].pc = "idle"
  /\ IF flavor_id \notin FlavorIds
     THEN Finish(c, "record_purchase", "TypeError")
     ELSE /\ conn' = [conn EXCEPT ![c] =
                 [pc |-> "p_insert", op |-> "record_purchase", result |-> "ok",
                  location_id |-> location_id, flavor_id |-> flavor_id,
                  containers |-> containers, purchase_date |-> purchase_date,
                  cost_per_container |-> FLAVORS[flavor_id].cost_per_container]]
          /\ UNCHANGED last
  /\ UNCHANGED <<locations, ledger, purchases, sales, pending, writer>>
  /\ UNCHANGED uivars

\* lines 246-252: INSERT INTO purchases opens the transaction
PurchaseInsert(c) ==
  /\ conn[c].pc = "p_insert"
  /\ writer = 0
  /\ Events < MaxConcEvents
  /\ writer' = c
  /\ pending' = Tables(locations, ledger,
                       Append(purchases,
                              PurchaseRow(conn[c].location_id, conn[c].flavor_id,
                                          conn[c].purchase_date, conn[c].containers,
                                          conn[c].cost_per_container)),
                       sales)
  /\ conn' = [conn EXCEPT ![c].pc = "p_update"]
  /\ UNCHANGED <<locations, ledger, purchases, sales, last>>
  /\ UNCHANGED uivars

\* lines 253-274: read the entry inside the transaction, insert it when it
\* is missing, write the new quantity and average
PurchaseUpdate(c) ==
  /\ conn[c].pc = "p_update"
  /\ writer = c
  /\ pending' = [pending EXCEPT !.ledger =
                   LedgerAfterPurchase(pending.ledger, conn[c].location_id,
                                       conn[c].flavor_id, conn[c].containers)]
  /\ conn' = [conn EXCEPT ![c].pc = "commit"]
  /\ UNCHANGED <<locations, ledger, purchases, sales, last, writer>>
  /\ UNCHANGED uivars

\* record_sale, lines 281-293: size check, then the read of ounces_on_hand
\* from the committed table and the sufficiency check
SaleSelectOnHand(c, location_id, flavor_id, size, container_type_id, quantity, sale_date) ==
  /\ conn[c].pc = "idle"
  /\ IF size \notin DOMAIN SCOOPS_OZ
     THEN Finish(c, "record_sale", "Invalid size")
     ELSE LET on_hand == OnHand(ledger, Key(location_id, flavor_id))
          IN  IF Insufficient(on_hand, SCOOPS_OZ[size] * quantity)
              THEN Finish(c, "record_sale", "Insufficient inventory for this sale.")
              ELSE /\ conn' = [conn EXCEPT ![c] =
                          [pc |-> "s_insert", op |-> "record_sale", result |-> "ok",
                           location_id |-> location_id, flavor_id |-> flavor_id,
                           size |-> size, container_type_id |-> container_type_id,
                           quantity |-> quantity, sale_date |-> sale_date,
                           on_hand |-> on_hand]]
                   /\ UNCHANGED last
  /\ UNCHANGED <<locations, ledger, purchases, sales, pending, writer>>
  /\ UNCHANGED uivars

\* lines 294-300: INSERT INTO sales opens the transaction
SaleInsert(c) ==
  /\ conn[c].pc = "s_insert"
  /\ writer = 0
  /\ Events < MaxConcEvents
  /\ writer' = c
  /\ pending' = Tables(locations, ledger, purchases,
                       Append(sales,
                              SaleRow(conn[c].location_id, conn[c].flavor_id,
                                      conn[c].sale_date, conn[c].size,
                                      conn[c].container_type_id, conn[c].quantity)))
  /\ conn' = [conn EXCEPT ![c].pc = "s_update"]
  /\ UNCHANGED <<locations, ledger, purchases, sales, last>>
  /\ UNCHANGED uivars

\* lines 301-305: write on_hand - oz_needed, on_hand being the value read
\* before the transaction began
SaleUpdate(c) ==
  /\ conn[c].pc = "s_update"
  /\ writer = c
  /\ pending' = [pending EXCEPT !.ledger =
                   LedgerAfterSale(pending.ledger,
                                   Key(conn[c].location_id, conn[c].flavor_id),
                                   conn[c].on_hand
                                     - SCOOPS_OZ[conn[c].size] * conn[c].quantity)]
  /\ conn' = [conn EXCEPT ![c].pc = "commit"]
  /\ UNCHANGED <<locations, ledger, purchases, sales, last, writer>>
  /\ UNCHANGED uivars

\* add_location, lines 220-224 and 235-236: INSERT INTO locations and the
\* first commit; a taken name raises IntegrityError and False is returned
LocationInsert(c, name) ==
  /\ conn[c].pc = "idle"
  /\ writer = 0
  /\ IF NameTaken(locations, strip(name))
     THEN /\ Finish(c, "add_location", "False")
          /\ UNCHANGED locations
     ELSE /\ Len(locations) < MaxLocations
          /\ locations' = Append(locations, strip(name))
          /\ conn' = [conn EXCEPT ![c] =
                 [pc |-> "l_entries", op |-> "add_location", result |-> "True",
                  name |-> strip(name)]]
          /\ UNCHANGED last
  /\ UNCHANGED <<ledger, purchases, sales, pending, writer>>
  /\ UNCHANGED uivars

\* lines 225-232: find the new id and INSERT OR IGNORE a zero entry for
\* every flavor, in a second transaction
LocationEntries(c) ==
  /\ conn[c].pc = "l_entries"
  /\ writer = 0
  /\ writer' = c
  /\ LET loc_id == CHOOSE i \in DOMAIN locations : locations[i] = conn[c].name
     IN  pending' = Tables(locations, WithZeroEntries(ledger, loc_id), purchases, sales)
  /\ conn' = [conn EXCEPT ![c].pc = "commit"]
  /\ UNCHANGED <<locations, ledger, purchases, sales, last>>
  /\ UNCHANGED uivars

ConcNext ==
  \E c \in Conns :
    \/ \E l \in ConcLocArgs, f \in ConcFlavorArgs, n \in ConcContainerArgs, d \in DateArgs :
         PurchaseSelectCost(c, l, f, n, d)
    \/ PurchaseInsert(c)
    \/ PurchaseUpdate(c)
    \/ \E l \in ConcLocArgs, f \in ConcFlavorArgs, s \in ConcSizeArgs,
          ct \in ContainerTypeArgs, q \in ConcQtyArgs, d \in DateArgs :
         SaleSelectOnHand(c, l, f, s, ct, q, d)
    \/ SaleInsert(c)
    \/ SaleUpdate(c)
    \/ \E name \in ConcNameArgs : LocationInsert(c, name)
    \/ LocationEntries(c)
    \/ Commit(c)
    \/ Rollback(c)
    \/ LockTimeout(c)

SpecConc == Init /\ [][ConcNext]_vars

(***************************************************************************)
(* Sums over the event logs.                                               *)
(***************************************************************************)
RowsAt(log, k) == SelectSeq(log, LAMBDA r : Key(r.location_id, r.flavor_id) = k)

RECURSIVE ContainersBought(_)
ContainersBought(rows) ==
  IF rows = <<>> THEN 0 ELSE Head(rows).containers + ContainersBought(Tail(rows))

RECURSIVE CostPaid(_)
CostPaid(rows) ==
  IF rows = <<>> THEN 0
  ELSE Head(rows).containers * Head(rows).cost_per_container + CostPaid(Tail(rows))

RECURSIVE OuncesSold(_)
OuncesSold(rows) ==
  IF rows = <<>> THEN 0
  ELSE SCOOPS_OZ[Head(rows).size] * Head(rows).quantity + OuncesSold(Tail(rows))

AllPositive(rows) == \A i \in DOMAIN rows : rows[i].containers > 0

\* C1: in every state reached by add_location, record_purchase and
\* record_sale calls, ounces_on_hand of every ledger entry is >= 0.
C1_NonNegative ==
  \A k \in DOMAIN ledger : ledger[k].ounces_on_hand >= 0

\* C2: a record_sale whose required volume exceeds the quantity on hand of
\* its (location, flavor) entry, or whose entry does not exist, fails with
\* the insufficient-inventory error and changes no table.
C2_InsufficientSaleRejected ==
  [][\A l \in LocArgs, f \in FlavorArgs, s \in SizeArgs, ct \in ContainerTypeArgs,
        q \in QtyArgs, d \in DateArgs :
       (/\ s \in DOMAIN SCOOPS_OZ
        /\ SCOOPS_OZ[s] * q > OnHand(ledger, Key(l, f))
        /\ RecordSale(l, f, s, ct, q, d))
       => (/\ last'.result = "Insufficient inventory for this sale."
           /\ UNCHANGED dbvars)]_vars

C2_Witness ==
  /\ last = [op |-> "record_sale", result |-> "Insufficient inventory for this sale."]
  /\ \E k \in DOMAIN ledger : ledger[k].ounces_on_hand > 0

AllSold(rows) == \A i \in DOMAIN rows : rows[i].quantity > 0

\* C3: purchases and sales on one key are indivisible read-modify-writes, so
\* under any interleaving of two connections an entry ends as some serial
\* order of the committed calls leaves it: with every committed call at the
\* key a purchase of n > 0 containers or a sale of q > 0 servings, every
\* serial order leaves 640 * (containers bought) - (ounces sold) on hand.
C3_SerialOutcome ==
  \A k \in DOMAIN ledger :
    (AllPositive(RowsAt(purchases, k)) /\ AllSold(RowsAt(sales, k)))
    => ledger[k].ounces_on_hand =
         OZ_PER_CONTAINER * ContainersBought(RowsAt(purchases, k))
           - OuncesSold(RowsAt(sales, k))

\* C4: an entry that has only been purchased into (one or more purchases of a
\* positive number of containers, no sale at its key) has an average cost of
\* the total cost paid divided by the total ounces bought.
C4_WeightedAverage ==
  \A k \in DOMAIN ledger :
    LET bought == RowsAt(purchases, k)
    IN  (bought # <<>> /\ AllPositive(bought) /\ RowsAt(sales, k) = <<>>)
        => ledger[k].avg_cost_per_oz =
             Frac(CostPaid(bought), ContainersBought(bought) * OZ_PER_CONTAINER)

C4_Witness ==
  \E k \in DOMAIN ledger :
    /\ Len(RowsAt(purchases, k)) >= 2
    /\ AllPositive(RowsAt(purchases, k))
    /\ RowsAt(sales, k) = <<>>
    /\ ledger[k].ounces_on_hand >= 2 * OZ_PER_CONTAINER

\* C5: a sale that is recorded lowers ounces_on_hand of the sold entry by
\* exactly SCOOPS_OZ[size] * quantity, keeps that entry's average cost, and
\* changes no other ledger entry.
C5_SaleKeepsCost ==
  [][Len(sales') = Len(sales) + 1 =>
       LET r == sales'[Len(sales')]
           k == Key(r.location_id, r.flavor_id)
       IN  /\ DOMAIN ledger' = DOMAIN ledger
           /\ \A j \in DOMAIN ledger : j # k => ledger'[j] = ledger[j]
           /\ k \in DOMAIN ledger =>
                /\ ledger'[k].ounces_on_hand =
                     ledger[k].ounces_on_hand - SCOOPS_OZ[r.size] * r.quantity
                /\ ledger'[k].avg_cost_per_oz = ledger[k].avg_cost_per_oz]_vars

C5_Witness ==
  /\ last = [op |-> "record_sale", result |-> "ok"]
  /\ sales[Len(sales)].quantity > 0
  /\ LET k == Key(sales[Len(sales)].location_id, sales[Len(sales)].flavor_id)
     IN  /\ k \in DOMAIN ledger
         /\ ledger[k].ounces_on_hand = 0
         /\ ledger[k].avg_cost_per_oz # Zero

\* C6: every change of the committed tables made by record_purchase or
\* record_sale appends exactly one event row and leaves the ledger entry of
\* that row's key holding the value the call computed; a step never changes
\* the ledger without an event row or an event row without the ledger entry.
C6_AllOrNothing ==
  [][\A c \in Conns :
       (conn[c].pc = "commit" /\ conn'[c].pc = "idle"
          /\ conn[c].op \in {"record_purchase", "record_sale"})
       => LET k == Key(conn[c].location_id, conn[c].flavor_id)
          IN  IF <<purchases', sales', ledger'>> = <<purchases, sales, ledger>>
              THEN TRUE
              ELSE /\ Len(purchases') + Len(sales') = Len(purchases) + Len(sales) + 1
                   /\ SubSeq(purchases', 1, Len(purchases)) = purchases
                   /\ SubSeq(sales', 1, Len(sales)) = sales
                   /\ k \in DOMAIN ledger'
                   /\ \A j \in DOMAIN ledger' \ {k} :
                        j \in DOMAIN ledger /\ ledger'[j] = ledger[j]
                   /\ IF conn[c].op = "record_purchase"
                      THEN ledger'[k] =
                             PurchasedEntry(ReadEntry(ledger, k), conn[c].containers,
                                            conn[c].cost_per_container)
                      ELSE ledger'[k].ounces_on_hand =
                             conn[c].on_hand
                               - SCOOPS_OZ[conn[c].size] * conn[c].quantity]_vars

\* C7: record_purchase with a container count <= 0 fails and changes no table.
C7_NonPositivePurchaseRejected ==
  [][\A l \in LocArgs, f \in FlavorArgs, n \in ContainerArgs, d \in DateArgs :
       (n <= 0 /\ RecordPurchase(l, f, n, d))
       => (last'.result # "ok" /\ UNCHANGED dbvars)]_vars

\* C8: record_sale with a quantity <= 0 fails and changes no table.
C8_NonPositiveSaleRejected ==
  [][\A l \in LocArgs, f \in FlavorArgs, s \in SizeArgs, ct \in ContainerTypeArgs,
        q \in QtyArgs, d \in DateArgs :
       (q <= 0 /\ RecordSale(l, f, s, ct, q, d))
       => (last'.result # "ok" /\ UNCHANGED dbvars)]_vars

\* C9: record_purchase with a location id or a flavor id that is not in the
\* catalog fails and changes no table.
C9_UnknownKeyPurchaseRejected ==
  [][\A l \in LocArgs, f \in FlavorArgs, n \in ContainerArgs, d \in DateArgs :
       ((l \notin DOMAIN locations \/ f \notin FlavorIds) /\ RecordPurchase(l, f, n, d))
       => (last'.result # "ok" /\ UNCHANGED dbvars)]_vars

\* C10: add_location with a name that an existing location already has
\* returns False and changes no table.
C10_DuplicateNameRejected ==
  [][\A name \in NameArgs :
       ((\E i \in DOMAIN locations : locations[i] = strip(name)) /\ AddLocation(name))
       => (last'.result = "False" /\ UNCHANGED dbvars)]_vars

C10_Witness ==
  /\ last = [op |-> "add_location", result |-> "False"]
  /\ locations # <<>>

(***************************************************************************)
(* Text as SQLite and Python compare it: a string is a sequence of         *)
(* characters, ordered character by character by code point (the BINARY    *)
(* collation), a proper prefix coming first.                               *)
(***************************************************************************)
\* the characters of the model in code-point order
Chars == <<" ", "-", "0", "1", "2", "3", "4", "5", "6", "7", "8", "9", "A", "B">>

Ord(ch) == CHOOSE i \in DOMAIN Chars : Chars[i] = ch

RECURSIVE StrLess(_, _)
StrLess(a, b) ==
  IF b = <<>> THEN FALSE
  ELSE IF a = <<>> THEN TRUE
  ELSE IF Head(a) # Head(b) THEN Ord(Head(a)) < Ord(Head(b))
  ELSE StrLess(Tail(a), Tail(b))

\* the decimal digits of n >= 0
RECURSIVE Digits(_)
Digits(n) ==
  IF n < 10 THEN <<Chars[n + 3]>> ELSE Digits(n \div 10) \o <<Chars[(n % 10) + 3]>>

RECURSIVE ZeroFill(_, _)
ZeroFill(s, width) == IF Len(s) >= width THEN s ELSE ZeroFill(<<"0">> \o s, width)

\* format(n, "0{width}d"): the sign first, zeros up to the width
Format0d(n, width) ==
  IF n < 0 THEN <<"-">> \o ZeroFill(Digits(-n), width - 1)
  ELSE ZeroFill(Digits(n), width)

\* the text of a date as datetime.strftime("%Y-%m-%d") writes it
IsoDate(year, month, day) ==
  Format0d(year, 4) \o <<"-">> \o Format0d(month, 2) \o <<"-">> \o Format0d(day, 2)

(***************************************************************************)
(* _month_bounds                                                           *)
(***************************************************************************)
\* the December branch without the year + 1
_month_bounds_SameYear(year, month) ==
  [start |-> Format0d(year, 4) \o <<"-">> \o Format0d(month, 2) \o <<"-", "0", "1">>,
   end   |-> IF month = 12
             THEN Format0d(year, 4) \o <<"-", "0", "1", "-", "0", "1">>
             ELSE Format0d(year, 4) \o <<"-">> \o Format0d(month + 1, 2)
                    \o <<"-", "0", "1">>]

_month_bounds(year, month) ==
  [start |-> Format0d(year, 4) \o <<"-">> \o Format0d(month, 2) \o <<"-", "0", "1">>,
   end   |-> IF month = 12
             THEN Format0d(year + 1, 4) \o <<"-", "0", "1", "-", "0", "1">>
             ELSE Format0d(year, 4) \o <<"-">> \o Format0d(month + 1, 2)
                    \o <<"-", "0", "1">>]

\* SELECT ... FROM sales WHERE location_id=? AND sale_date>=? AND sale_date<?
SalesRows(sal, loc_id, bounds) ==
  SelectSeq(sal, LAMBDA r : /\ r.location_id = loc_id
                            /\ ~StrLess(r.sale_date, bounds.start)
                            /\ StrLess(r.sale_date, bounds.end))

(***************************************************************************)
(* generate_income_statement.  Its float figures are kept as exact         *)
(* fractions of cents.                                                     *)
(***************************************************************************)
\* dollars 3.00, 3.50, 4.00, 4.50 in cents
SALE_PRICES == [Kiddie |-> 300, Small |-> 350, Medium |-> 400, Large |-> 450]

\* every size charged at the Kiddie price
SalePrice_Kiddie(size) == SALE_PRICES["Kiddie"]

\* SALE_PRICES.get(size, 0.0)
SalePrice(size) == IF size \in DOMAIN SALE_PRICES THEN SALE_PRICES[size] ELSE 0

\* 20.0 / 10000.0 * 2 dollars, in cents
NAPKIN_COST_PER_ORDER == Frac(2000 * 2, 10000)

\* rent, utilities, labor, equipment_lease in cents
FIXED_EXPENSES ==
  [rent |-> 100000, utilities |-> 25000, labor |-> 1500000, equipment_lease |-> 200000]

Fields ==
  {"revenue", "cogs_icecream", "cogs_containers", "cogs_napkins", "gross_profit",
   "operating_expenses", "operating_income", "net_income"}

\* p + q and p - q for fractions p and q, over their least common denominator
LCD(p, q) == (p[2] \div GCD(p[2], q[2])) * q[2]

FracAdd(p, q) ==
  LET d == LCD(p, q) IN Frac(p[1] * (d \div p[2]) + q[1] * (d \div q[2]), d)

FracSub(p, q) ==
  LET d == LCD(p, q) IN Frac(p[1] * (d \div p[2]) - q[1] * (d \div q[2]), d)

RECURSIVE FracSum(_)
FracSum(qs) == IF qs = <<>> THEN Zero ELSE FracAdd(Head(qs), FracSum(Tail(qs)))

RECURSIVE IntSum(_)
IntSum(xs) == IF xs = <<>> THEN 0 ELSE Head(xs) + IntSum(Tail(xs))

\* sum(FIXED_EXPENSES.values())
RECURSIVE SumValues(_)
SumValues(f) ==
  IF DOMAIN f = {} THEN 0
  ELSE LET x == CHOOSE x \in DOMAIN f : TRUE
       IN  f[x] + SumValues([y \in DOMAIN f \ {x} |-> f[y]])

\* list_locations: SELECT id, name FROM locations ORDER BY name
RECURSIVE OrderByName(_, _)
OrderByName(locs, ids) ==
  IF ids = {} THEN <<>>
  ELSE LET m == CHOOSE i \in ids : \A j \in ids \ {i} : StrLess(locs[i], locs[j])
       IN  <<m>> \o OrderByName(locs, ids \ {m})

list_locations(locs) == OrderByName(locs, DOMAIN locs)

\* lines 345-351: avg_cost_per_oz of the ledger row as it is now, 0.0 when
\* there is no row
AvgCostNow(led, k) == IF k \in DOMAIN led THEN led[k].avg_cost_per_oz ELSE Zero

\* lines 337-343 for one flavor: the ounces of the rows of that flavor
OzSoldOfFlavor(rows, flavor_id) ==
  IntSum([i \in DOMAIN rows |->
            IF rows[i].flavor_id = flavor_id
            THEN SCOOPS_OZ[rows[i].size] * rows[i].quantity ELSE 0])

\* lines 344-352: sum over the flavors sold of avg_cost * oz
RECURSIVE IcecreamCogsOver(_, _, _, _)
IcecreamCogsOver(led, loc_id, rows, flavor_ids) ==
  IF flavor_ids = {} THEN Zero
  ELSE LET f == CHOOSE f \in flavor_ids : TRUE
       IN  FracAdd(FracTimes(OzSoldOfFlavor(rows, f), AvgCostNow(led, Key(loc_id, f))),
                   IcecreamCogsOver(led, loc_id, rows, flavor_ids \ {f}))

\* lines 345-351 finding no inventory_state row for any flavor
IcecreamCogs_NoLedger(led, loc_id, rows) ==
  IcecreamCogsOver([k \in {} |-> ZeroEntry], loc_id, rows,
                   {rows[i].flavor_id : i \in DOMAIN rows})

IcecreamCogs(led, loc_id, rows) ==
  IcecreamCogsOver(led, loc_id, rows, {rows[i].flavor_id : i \in DOMAIN rows})

\* lines 334-369: the statement of one location from its sales rows
Statement(led, loc_id, rows) ==
  LET revenue == IntSum([i \in DOMAIN rows |->
                           SalePrice(rows[i].size) * rows[i].quantity])
      container_cost ==
        FracSum([i \in DOMAIN rows |->
                   LET c == CONTAINERS[rows[i].container_type_id]
                   IN  FracTimes(rows[i].quantity,
                                 Frac(c.price_per_pack, c.units_per_pack))])
      container_orders == IntSum([i \in DOMAIN rows |-> rows[i].quantity])
      icecream_cogs == IcecreamCogs(led, loc_id, rows)
      napkins_cogs == FracTimes(container_orders, NAPKIN_COST_PER_ORDER)
      cogs_total == FracAdd(FracAdd(icecream_cogs, container_cost), napkins_cogs)
      gross_profit == FracSub(Frac(revenue, 1), cogs_total)
      operating_expenses == Frac(SumValues(FIXED_EXPENSES), 1)
      operating_income == FracSub(gross_profit, operating_expenses)
      net_income == operating_income
  IN  [revenue |-> Frac(revenue, 1),
       cogs_icecream |-> icecream_cogs,
       cogs_containers |-> container_cost,
       cogs_napkins |-> napkins_cogs,
       gross_profit |-> gross_profit,
       operating_expenses |-> operating_expenses,
       operating_income |-> operating_income,
       net_income |-> net_income]

\* line 370 dropped: company[k] = st[k] in place of company[k] += st[k]
Accumulate_Assign(company, st) == st

\* lines 371-372: for k in company: company[k] += st[k]
Accumulate(company, st) == [k \in Fields |-> FracAdd(company[k], st[k])]

\* lines 321-323: company = {k: 0.0 for k in [...]}
ZeroCompany == [k \in Fields |-> Zero]

RECURSIVE Company(_)
Company(sts) ==
  IF sts = <<>> THEN ZeroCompany
  ELSE Accumulate(Company(SubSeq(sts, 1, Len(sts) - 1)), sts[Len(sts)].st)

\* line 341: conts[container_type_id] raises KeyError for an unknown type
UnknownContainer(rows) ==
  \E i \in DOMAIN rows : rows[i].container_type_id \notin DOMAIN CONTAINERS

\* the value generate_income_statement returns, or the exception it raises
IncomeStatement(locs, led, sal, year, month) ==
  LET bounds == _month_bounds(year, month)
      ids == list_locations(locs)
      sts == [i \in DOMAIN ids |->
                [name |-> locs[ids[i]],
                 rows |-> SalesRows(sal, ids[i], bounds)]]
  IN  IF \E i \in DOMAIN sts : UnknownContainer(sts[i].rows)
      THEN [op |-> "generate_income_statement", year |-> year, month |-> month,
            result |-> "KeyError"]
      ELSE LET statements ==
                 [i \in DOMAIN ids |->
                    [name |-> sts[i].name,
                     st |-> Statement(led, ids[i], sts[i].rows)]]
           IN  [op |-> "generate_income_statement", year |-> year, month |-> month,
                result |-> "ok", statements |-> statements,
                company |-> Company(statements)]

generate_income_statement(year, month) ==
  /\ report' = IncomeStatement(locations, ledger, sales, year, month)
  /\ UNCHANGED <<locations, ledger, purchases, sales, last, conn, pending, writer, cart>>

(***************************************************************************)
(* round(x, ndigits) of a float quotient n / d.  Python rounds the double  *)
(* it holds: to the nearest step, and when n / d lies exactly between two  *)
(* steps, to the side on which the nearest double of n / d lies (to the    *)
(* even step when n / d is itself a double).                               *)
(***************************************************************************)
RECURSIVE IsPowerOfTwo(_)
IsPowerOfTwo(d) == d = 1 \/ (d % 2 = 0 /\ IsPowerOfTwo(d \div 2))

\* floor(log2(n / d)) for n, d > 0
RECURSIVE Log2Floor(_, _)
Log2Floor(n, d) ==
  IF n < d THEN Log2Floor(2 * n, d) - 1
  ELSE IF 2 * d <= n THEN Log2Floor(n, 2 * d) + 1
  ELSE 0

\* (r * 2^e) mod d
RECURSIVE ShiftMod(_, _, _)
ShiftMod(r, d, e) == IF e = 0 THEN r ELSE ShiftMod((2 * r) % d, d, e - 1)

\* the 53-bit double nearest to n / d is above n / d
DoubleIsAbove(n, d) == 2 * ShiftMod(n % d, d, 52 - Log2Floor(n, d)) > d

RECURSIVE RoundQuotient(_, _, _)
RoundQuotient(n, d, steps) ==
  IF n < 0 THEN -RoundQuotient(-n, d, steps)
  ELSE LET g == IF n = 0 THEN d ELSE GCD(n, d)
           nn == n \div g
           dd == d \div g
           low == (nn * steps) \div dd
           rem == (nn * steps) % dd
       IN  IF 2 * rem < dd THEN low
           ELSE IF 2 * rem > dd THEN low + 1
           ELSE IF IsPowerOfTwo(dd) THEN (IF low % 2 = 0 THEN low ELSE low + 1)
           ELSE IF DoubleIsAbove(nn, dd) THEN low + 1 ELSE low

(***************************************************************************)
(* generate_flavor_sales_report and generate_inventory_levels              *)
(***************************************************************************)
\* loc_names.get(loc_id, f"Loc {loc_id}")
LocName(locs, loc_id) ==
  IF loc_id \in DOMAIN locs THEN locs[loc_id] ELSE <<"L", "o", "c", " ">> \o Digits(loc_id)

\* flavor_names.get(flavor_id, f"Flavor {flavor_id}")
FlavorName(flavor_id) ==
  IF flavor_id \in FlavorIds THEN <<FLAVORS[flavor_id].name>>
  ELSE <<"Flavor ">> \o Digits(flavor_id)

\* ORDER BY location_id, flavor_id
RECURSIVE OrderByKey(_)
OrderByKey(keys) ==
  IF keys = {} THEN <<>>
  ELSE LET m == CHOOSE k \in keys :
                  \A j \in keys : k[1] < j[1] \/ (k[1] = j[1] /\ k[2] <= j[2])
       IN  <<m>> \o OrderByKey(keys \ {m})

\* SELECT ... FROM sales WHERE sale_date>=? AND sale_date<?
\* the SELECT without its WHERE clause
SalesBetween_All(sal, bounds) == sal

SalesBetween(sal, bounds) ==
  SelectSeq(sal, LAMBDA r : /\ ~StrLess(r.sale_date, bounds.start)
                            /\ StrLess(r.sale_date, bounds.end))

\* the value generate_flavor_sales_report returns; ounces are whole numbers,
\* containers are in hundredths
FlavorSalesReport(locs, sal, year, month) ==
  LET rows == SalesBetween(sal, _month_bounds(year, month))
      keys == OrderByKey({Key(rows[i].location_id, rows[i].flavor_id) : i \in DOMAIN rows})
  IN  [op |-> "generate_flavor_sales_report", year |-> year, month |-> month,
       result |-> "ok",
       out |-> [i \in DOMAIN keys |->
                  LET oz == OuncesSold(SelectSeq(rows,
                              LAMBDA r : Key(r.location_id, r.flavor_id) = keys[i]))
                  IN  [Location |-> LocName(locs, keys[i][1]),
                       Flavor |-> FlavorName(keys[i][2]),
                       Ounces_Sold |-> oz,
                       Containers_approx |-> RoundQuotient(oz, OZ_PER_CONTAINER, 100)]]]

generate_flavor_sales_report(year, month) ==
  /\ report' = FlavorSalesReport(locations, sales, year, month)
  /\ UNCHANGED <<locations, ledger, purchases, sales, last, conn, pending, writer, cart>>

\* the value generate_inventory_levels returns; ounces are whole numbers,
\* containers in hundredths, the average cost in ten-thousandths of a dollar
InventoryLevels(locs, led) ==
  LET keys == OrderByKey(DOMAIN led)
  IN  [op |-> "generate_inventory_levels", result |-> "ok",
       out |-> [i \in DOMAIN keys |->
                  LET row == led[keys[i]]
                  IN  [Location |-> LocName(locs, keys[i][1]),
                       Flavor |-> FlavorName(keys[i][2]),
                       Ounces_on_Hand |-> row.ounces_on_hand,
                       Containers_approx |->
                         RoundQuotient(row.ounces_on_hand, OZ_PER_CONTAINER, 100),
                       Avg_Cost_per_oz |->
                         RoundQuotient(row.avg_cost_per_oz[1],
                                       100 * row.avg_cost_per_oz[2], 10000)]]]

\* a report that also clears the average cost of the entries it finds empty
generate_inventory_levels_Writes ==
  /\ report' = InventoryLevels(locations, ledger)
  /\ ledger' = [k \in DOMAIN ledger |->
                  IF ledger[k].ounces_on_hand = 0 THEN ZeroEntry ELSE ledger[k]]
  /\ UNCHANGED <<locations, purchases, sales, last, conn, pending, writer, cart>>

generate_inventory_levels ==
  /\ report' = InventoryLevels(locations, ledger)
  /\ UNCHANGED <<locations, ledger, purchases, sales, last, conn, pending, writer, cart>>

(***************************************************************************)
(* One caller recording events and asking for reports.  report is what     *)
(* the last report call returned, as long as no call has changed the       *)
(* tables since.                                                           *)
(***************************************************************************)
RepNameArgs == { <<"B">>, <<"A">> }

RepLocArgs == {1, 2}

\* deliveries go to the first location
RepPurchaseLocArgs == {1}

RepFlavorArgs == {1}

RepContainerArgs == {1}

RepSizeArgs == {"Large"}

RepQtyArgs == {-1, 40}

\* the first day of February and the last day of the year
RepDateArgs == { IsoDate(2025, 2, 1), IsoDate(2025, 12, 31) }

\* a text of the same form that names no day of the calendar
RepNoDate == IsoDate(2025, 2, 30)

\* an id one past the last row of the containers table
RepUnknownContainer == Len(CONTAINERS) + 1

\* the sales that are asked for: those of the catalog's first container
\* type on a day of the calendar, a sale of a single scoop, one sale that
\* names a container type the catalog does not hold, and one sale dated on
\* no day of the calendar
RepSaleArgs ==
  (RepLocArgs \X RepFlavorArgs \X RepSizeArgs \X ContainerTypeArgs
     \X RepQtyArgs \X RepDateArgs)
    \cup { <<1, 1, "Large", 1, 1, IsoDate(2025, 12, 31)>>,
           <<1, 1, "Large", RepUnknownContainer, 40, IsoDate(2025, 12, 31)>>,
           <<1, 1, "Large", 1, 40, RepNoDate>> }

RepYearArgs == {2025}

RepMonthArgs == {1, 12, 13}

\* purchases carry the date of the day they are entered
RepPurchaseDateArgs == { IsoDate(2025, 1, 31) }

RepFlavorMonthArgs == {0, 12}

RepAddLocation ==
  /\ \E name \in RepNameArgs : AddLocation(name)
  /\ report' = NoReport
  /\ UNCHANGED cart

RepRecordPurchase ==
  /\ \E l \in RepPurchaseLocArgs, f \in RepFlavorArgs, n \in RepContainerArgs,
        d \in RepPurchaseDateArgs :
       RecordPurchase(l, f, n, d)
  /\ report' = NoReport
  /\ UNCHANGED cart

RepRecordSale ==
  /\ \E a \in RepSaleArgs : RecordSale(a[1], a[2], a[3], a[4], a[5], a[6])
  /\ report' = NoReport
  /\ UNCHANGED cart

RepIncomeStatement ==
  \E y \in RepYearArgs, m \in RepMonthArgs : generate_income_statement(y, m)

RepFlavorSales ==
  \E y \in RepYearArgs, m \in RepFlavorMonthArgs : generate_flavor_sales_report(y, m)

RepInventoryLevels == generate_inventory_levels

RepNext ==
  \/ RepAddLocation
  \/ RepRecordPurchase
  \/ RepRecordSale
  \/ RepIncomeStatement
  \/ RepFlavorSales
  \/ RepInventoryLevels

SpecReport == Init /\ [][RepNext]_vars

(***************************************************************************)
(* Claims C11..C20.                                                        *)
(***************************************************************************)

\* C11: in no committed state does a location exist while some existing
\* flavor lacks a ledger entry for it (add_location is one atomic step)
C11_LocationHasEntries ==
  \A i \in DOMAIN locations : \A f \in FlavorIds : Key(i, f) \in DOMAIN ledger

(***************************************************************************)
(* The customer's cart and App.process_order.                              *)
(***************************************************************************)
\* the most lines a cart holds
MaxCart == 2

CartLocArgs == {1}

CartFlavorArgs == {1}

\* the size combobox: a listed size, or nothing selected
CartSizeArgs == {"Large", ""}

CartQtyArgs == {0, 1, 40}

\* datetime.now() on the day of the order
Today == IsoDate(2025, 12, 31)

CartLine(location_id, flavor_id, size, container_type_id, quantity) ==
  [location_id |-> location_id, flavor_id |-> flavor_id, size |-> size,
   container_type_id |-> container_type_id, quantity |-> quantity]

\* App.add_to_cart: a non-positive quantity is refused, anything else is
\* staged without touching the tables
add_to_cart(location_id, flavor_id, size, container_type_id, qty) ==
  /\ location_id \in DOMAIN locations
  /\ IF qty <= 0
     THEN /\ last' = [op |-> "add_to_cart", result |-> "Quantity must be positive."]
          /\ UNCHANGED cart
     ELSE /\ Len(cart) < MaxCart
          /\ cart' = Append(cart, CartLine(location_id, flavor_id, size,
                                           container_type_id, qty))
          /\ last' = [op |-> "add_to_cart", result |-> "Item added to cart."]
  /\ UNCHANGED <<locations, ledger, purchases, sales, conn, pending, writer, report>>

\* what record_sale raises for a cart line against the ledger, "ok" if nothing
SaleError(led, line) ==
  IF line.size \notin DOMAIN SCOOPS_OZ THEN "Invalid size"
  ELSE IF Insufficient(OnHand(led, Key(line.location_id, line.flavor_id)),
                       SCOOPS_OZ[line.size] * line.quantity)
       THEN "Insufficient inventory for this sale."
       ELSE "ok"

\* lines 895-903 as one transaction: nothing is kept when a line raises
RECURSIVE Checkout_AllOrNothing(_, _, _)
Checkout_AllOrNothing(led, sal, lines) ==
  IF lines = <<>> THEN [ledger |-> led, sales |-> sal, error |-> "ok"]
  ELSE LET line == Head(lines)
           k == Key(line.location_id, line.flavor_id)
           e == SaleError(led, line)
           rest == Checkout_AllOrNothing(
                     LedgerAfterSale(led, k,
                       OnHand(led, k) - SCOOPS_OZ[line.size] * line.quantity),
                     Append(sal, SaleRow(line.location_id, line.flavor_id, Today,
                                         line.size, line.container_type_id,
                                         line.quantity)),
                     Tail(lines))
       IN  IF e # "ok" THEN [ledger |-> led, sales |-> sal, error |-> e]
           ELSE IF rest.error # "ok"
                THEN [ledger |-> led, sales |-> sal, error |-> rest.error]
                ELSE rest

\* lines 895-903: record_sale line by line, each call committing on its own,
\* until a line raises ValueError
RECURSIVE Checkout(_, _, _)
Checkout(led, sal, lines) ==
  IF lines = <<>> THEN [ledger |-> led, sales |-> sal, error |-> "ok"]
  ELSE LET line == Head(lines)
           k == Key(line.location_id, line.flavor_id)
           e == SaleError(led, line)
       IN  IF e # "ok" THEN [ledger |-> led, sales |-> sal, error |-> e]
           ELSE Checkout(LedgerAfterSale(led, k,
                           OnHand(led, k) - SCOOPS_OZ[line.size] * line.quantity),
                         Append(sal, SaleRow(line.location_id, line.flavor_id, Today,
                                             line.size, line.container_type_id,
                                             line.quantity)),
                         Tail(lines))

\* the messagebox of line 905
OrderFailed(e) ==
  IF e = "Invalid size" THEN "Order failed: Invalid size No items were charged."
  ELSE "Order failed: Insufficient inventory for this sale. No items were charged."

OrderFailures == { OrderFailed("Invalid size"),
                   OrderFailed("Insufficient inventory for this sale.") }

\* App.process_order
process_order ==
  /\ IF cart = <<>>
     THEN /\ last' = [op |-> "process_order", result |-> "Your cart is empty."]
          /\ UNCHANGED <<ledger, sales, cart>>
     ELSE LET done == Checkout(ledger, sales, cart)
          IN  /\ Len(purchases) + Len(done.sales) <= MaxEvents
              /\ ledger' = done.ledger
              /\ sales' = done.sales
              /\ IF done.error # "ok"
                 THEN /\ last' = [op |-> "process_order", result |-> OrderFailed(done.error)]
                      /\ UNCHANGED cart
                 ELSE /\ last' = [op |-> "process_order",
                                  result |-> "Thank you! Your order has been processed."]
                      /\ cart' = <<>>
  /\ UNCHANGED <<locations, purchases, conn, pending, writer, report>>

CartAddLocation ==
  /\ \E name \in NameArgs : AddLocation(name)
  /\ UNCHANGED uivars

CartRecordPurchase ==
  /\ \E l \in CartLocArgs, f \in CartFlavorArgs, d \in DateArgs : RecordPurchase(l, f, 1, d)
  /\ UNCHANGED uivars

CartAdd ==
  \E l \in CartLocArgs, f \in CartFlavorArgs, s \in CartSizeArgs,
     ct \in ContainerTypeArgs, q \in CartQtyArgs :
    add_to_cart(l, f, s, ct, q)

\* cart_tree.selection(): no row, or the row of one line of the cart (the
\* tree is rebuilt from the cart, with the indices as row ids, after every
\* change of the cart)
NoSelection == -1

Selections(lines) == {NoSelection} \cup (0 .. Len(lines) - 1)

\* del self.cart[idx]
DelLine(lines, idx) ==
  [j \in 1 .. Len(lines) - 1 |-> IF j <= idx THEN lines[j] ELSE lines[j + 1]]

\* App.delete_selected_cart_item
delete_selected_cart_item(sel) ==
  /\ IF sel = NoSelection
     THEN UNCHANGED cart
     ELSE cart' = IF 0 <= sel /\ sel < Len(cart) THEN DelLine(cart, sel) ELSE cart
  /\ last' = [op |-> "delete_selected_cart_item", result |-> "None"]
  /\ UNCHANGED <<locations, ledger, purchases, sales, conn, pending, writer, report>>

\* lines 885-887 without the removal of a line that has no items left
AdjustedCart_KeepEmpty(lines, idx, delta) ==
  [lines EXCEPT ![idx + 1].quantity = @ + delta]

\* lines 885-887: the quantity moves by delta, and a line left with no
\* items is removed
AdjustedCart(lines, idx, delta) ==
  LET moved == [lines EXCEPT ![idx + 1].quantity = @ + delta]
  IN  IF moved[idx + 1].quantity <= 0 THEN DelLine(moved, idx) ELSE moved

\* the buttons "- Qty" and "+ Qty"
DeltaArgs == {-1, 1}

\* the "+ Qty" and "- Qty" buttons are pressed on lines that have, after
\* the press, at most this many items
MaxAdjusted == 2

\* App.adjust_qty
adjust_qty(sel, delta) ==
  /\ IF sel = NoSelection
     THEN UNCHANGED cart
     ELSE IF 0 <= sel /\ sel < Len(cart)
          THEN /\ cart[sel + 1].quantity + delta <= MaxAdjusted
               /\ cart' = AdjustedCart(cart, sel, delta)
          ELSE UNCHANGED cart
  /\ last' = [op |-> "adjust_qty", result |-> "None"]
  /\ UNCHANGED <<locations, ledger, purchases, sales, conn, pending, writer, report>>

CartDelete ==
  \E sel \in Selections(cart) : delete_selected_cart_item(sel)

CartAdjust ==
  \E sel \in Selections(cart), delta \in DeltaArgs : adjust_qty(sel, delta)

CartNext ==
  \/ CartAddLocation
  \/ CartRecordPurchase
  \/ CartAdd
  \/ CartDelete
  \/ CartAdjust
  \/ process_order

SpecCart == Init /\ [][CartNext]_vars

(***************************************************************************)
(* Calendar dates, read back from their text.                              *)
(***************************************************************************)
\* int() of a run of decimal digits
RECURSIVE ParseInt(_)
ParseInt(s) ==
  IF s = <<>> THEN 0 ELSE 10 * ParseInt(SubSeq(s, 1, Len(s) - 1)) + (Ord(s[Len(s)]) - 3)

IsLeap(year) == (year % 4 = 0 /\ year % 100 # 0) \/ year % 400 = 0

DaysInMonth(year, month) ==
  IF month = 2 THEN (IF IsLeap(year) THEN 29 ELSE 28)
  ELSE IF month \in {4, 6, 9, 11} THEN 30 ELSE 31

YearOf(date) == ParseInt(SubSeq(date, 1, 4))

MonthOf(date) == ParseInt(SubSeq(date, 6, 7))

DayOf(date) == ParseInt(SubSeq(date, 9, 10))

\* the text is the %Y-%m-%d form of a day of the calendar
IsCalendarDate(date) ==
  /\ Len(date) = 10
  /\ \A i \in {1, 2, 3, 4, 6, 7, 9, 10} : Ord(date[i]) \in 3 .. 12
  /\ MonthOf(date) \in 1 .. 12
  /\ DayOf(date) \in 1 .. DaysInMonth(YearOf(date), MonthOf(date))
  /\ date = IsoDate(YearOf(date), MonthOf(date), DayOf(date))

\* the (year, month) pairs a statement is asked for around the recorded dates
StatementYears == 2025 .. 2026

StatementMonths == 1 .. 12

\* the sale row is among the rows the statement of (year, month) reads for
\* one of the listed locations
Counted(row, year, month) ==
  \E l \in DOMAIN locations :
    LET rows == SalesRows(sales, l, _month_bounds(year, month))
    IN  \E j \in DOMAIN rows : rows[j] = row

\* C12: every recorded sale with a calendar date, at a listed location, is
\* counted in the income statement of the month of its date and of no other
\* month: the first day of a month counts in that month, the last day (31
\* December too) in that month and not in the next
C12_OneMonth ==
  \A i \in DOMAIN sales :
    (IsCalendarDate(sales[i].sale_date) /\ sales[i].location_id \in DOMAIN locations)
      => \A y \in StatementYears, m \in StatementMonths :
           Counted(sales[i], y, m)
             <=> (y = YearOf(sales[i].sale_date) /\ m = MonthOf(sales[i].sale_date))

\* a sale of 31 December 2025 and one of 1 February 2025 are on record and the
\* statement of December 2025 has been produced with revenue in it
C12_Witness ==
  /\ \E i \in DOMAIN sales : /\ sales[i].sale_date = IsoDate(2025, 12, 31)
                             /\ sales[i].location_id \in DOMAIN locations
  /\ \E i \in DOMAIN sales : /\ sales[i].sale_date = IsoDate(2025, 2, 1)
                             /\ sales[i].location_id \in DOMAIN locations
  /\ report.op = "generate_income_statement"
  /\ report.month = 12
  /\ report.result = "ok"
  /\ report.company.revenue # Zero

\* C13: every company figure of an income statement is the sum of that
\* figure over the per-location statements returned by the same call
C13_CompanyIsSum ==
  (report.op = "generate_income_statement" /\ report.result = "ok")
    => \A k \in Fields :
         report.company[k] =
           FracSum([i \in DOMAIN report.statements |-> report.statements[i].st[k]])

\* a statement over two locations that both sold in the month
C13_Witness ==
  /\ report.op = "generate_income_statement"
  /\ report.result = "ok"
  /\ Len(report.statements) = 2
  /\ \A i \in DOMAIN report.statements : report.statements[i].st.revenue # Zero

\* the sales of one flavor at one location dated inside the month
SalesOfFlavorIn(l, f, year, month) ==
  SelectSeq(sales, LAMBDA r : /\ r.location_id = l
                              /\ r.flavor_id = f
                              /\ ~StrLess(r.sale_date, _month_bounds(year, month).start)
                              /\ StrLess(r.sale_date, _month_bounds(year, month).end))

\* the largest flavor id on record
MaxFlavorId ==
  LET ids == FlavorIds \cup {sales[i].flavor_id : i \in DOMAIN sales}
  IN  CHOOSE f \in ids : \A g \in ids : g <= f

\* C14: the ice-cream COGS of a location for a month is the sum over the
\* flavors of (ounces of the flavor sold there in the month) times (the average
\* cost of the ledger entry as it is when the report is produced), so that a
\* purchase recorded after the sales changes the COGS reported for them
C14_LazyCogs ==
  (report.op = "generate_income_statement" /\ report.result = "ok")
    => \A i \in DOMAIN report.statements :
         \A l \in DOMAIN locations :
           locations[l] = report.statements[i].name
             => report.statements[i].st.cogs_icecream =
                  FracSum([f \in 1 .. MaxFlavorId |->
                    FracTimes(OuncesSold(SalesOfFlavorIn(l, f, report.year, report.month)),
                              IF Key(l, f) \in DOMAIN ledger
                              THEN ledger[Key(l, f)].avg_cost_per_oz ELSE Zero)])

\* a sale recorded while the entry had no cost (16 oz returned to an empty
\* entry) and a purchase recorded after it: the statement prices the sale at
\* the 200 cents / 656 oz the later purchase left in the ledger
C14_Witness ==
  /\ report.op = "generate_income_statement"
  /\ report.result = "ok"
  /\ \E i \in DOMAIN report.statements : \E l \in DOMAIN locations :
       /\ locations[l] = report.statements[i].name
       /\ Key(l, 1) \in DOMAIN ledger
       /\ ledger[Key(l, 1)] = [ounces_on_hand |-> 656, avg_cost_per_oz |-> <<25, 82>>]
       /\ report.statements[i].st.cogs_icecream = FracTimes(-16, <<25, 82>>)

\* the sales of one location dated inside the month
SalesOfLocationIn(l, year, month) ==
  SelectSeq(sales, LAMBDA r : /\ r.location_id = l
                              /\ ~StrLess(r.sale_date, _month_bounds(year, month).start)
                              /\ StrLess(r.sale_date, _month_bounds(year, month).end))

\* sum over sale rows of price(size) * quantity, in cents
RECURSIVE PriceTimesQuantity(_)
PriceTimesQuantity(rows) ==
  IF rows = <<>> THEN 0
  ELSE SALE_PRICES[Head(rows).size] * Head(rows).quantity + PriceTimesQuantity(Tail(rows))

\* C15: in every per-location statement revenue is the sum over the
\* location's sales of the month of price(size) * quantity, gross_profit is
\* revenue - (cogs_icecream + cogs_containers + cogs_napkins),
\* operating_expenses is the sum of the fixed expenses whatever was sold, and
\* operating_income = net_income = gross_profit - operating_expenses
C15_StatementFormulas ==
  (report.op = "generate_income_statement" /\ report.result = "ok")
    => \A i \in DOMAIN report.statements :
         LET st == report.statements[i].st
         IN  /\ \A l \in DOMAIN locations :
                  locations[l] = report.statements[i].name
                    => st.revenue =
                         <<PriceTimesQuantity(
                             SalesOfLocationIn(l, report.year, report.month)), 1>>
             /\ st.gross_profit =
                  FracSub(st.revenue,
                          FracAdd(st.cogs_icecream,
                                  FracAdd(st.cogs_containers, st.cogs_napkins)))
             /\ st.operating_expenses = <<100000 + 25000 + 1500000 + 200000, 1>>
             /\ st.operating_income = FracSub(st.gross_profit, st.operating_expenses)
             /\ st.net_income = st.operating_income

\* a statement with a location that sold 40 Large in the month (18000 cents)
\* next to a location that sold nothing and still carries the fixed expenses
C15_Witness ==
  /\ report.op = "generate_income_statement"
  /\ report.result = "ok"
  /\ \E i \in DOMAIN report.statements :
       /\ report.statements[i].st.revenue = <<18000, 1>>
       /\ report.statements[i].st.cogs_icecream # Zero
  /\ \E i \in DOMAIN report.statements :
       /\ report.statements[i].st.revenue = Zero
       /\ report.statements[i].st.net_income = <<-1825000, 1>>

\* report holds what the same call with the same arguments returned, and the
\* tables have not changed since
Repeats(op, year, month) ==
  /\ report.op = op
  /\ op # "generate_inventory_levels" => (report.year = year /\ report.month = month)

RowOfLine(line) ==
  SaleRow(line.location_id, line.flavor_id, Today, line.size,
          line.container_type_id, line.quantity)

\* ounces of the first n cart lines that fall on ledger key k
RECURSIVE OuncesOfLines(_, _, _)
OuncesOfLines(lines, n, k) ==
  IF n = 0 THEN 0
  ELSE OuncesOfLines(lines, n - 1, k)
       + (IF /\ Key(lines[n].location_id, lines[n].flavor_id) = k
             /\ lines[n].size \in DOMAIN SCOOPS_OZ
          THEN SCOOPS_OZ[lines[n].size] * lines[n].quantity ELSE 0)

\* line n of the cart has a listed size and finds its ounces on hand once the
\* lines before it are served
LinePasses(n) ==
  LET key == Key(cart[n].location_id, cart[n].flavor_id)
  IN  /\ cart[n].size \in DOMAIN SCOOPS_OZ
      /\ OnHand(ledger, key) - OuncesOfLines(cart, n - 1, key)
           >= SCOOPS_OZ[cart[n].size] * cart[n].quantity

\* C17: checkout is not atomic across lines: when process_order fails, at
\* the first line k of the cart that cannot be served, the sales of lines
\* 1..k-1 stay recorded and their ounces stay deducted, and the cart is left
\* as it was
C17_PartialOrderStays ==
  [][ (process_order /\ last'.result \in OrderFailures)
        => \E k \in DOMAIN cart :
             /\ \A j \in 1 .. (k - 1) : LinePasses(j)
             /\ ~LinePasses(k)
             /\ sales' = sales \o [j \in 1 .. (k - 1) |-> RowOfLine(cart[j])]
             /\ \A key \in DOMAIN ledger :
                  ledger'[key].ounces_on_hand =
                    ledger[key].ounces_on_hand - OuncesOfLines(cart, k - 1, key)
             /\ cart' = cart
    ]_vars

\* an order of 40 Large and a line without a size has just failed on its
\* second line: the 40 Large are on record and their 640 oz are gone
C17_Witness ==
  /\ last = [op |-> "process_order", result |-> OrderFailed("Invalid size")]
  /\ Len(cart) = 2
  /\ cart[1].size = "Large"
  /\ cart[1].quantity = 40
  /\ cart[2].size = ""
  /\ sales # <<>>
  /\ sales[Len(sales)] = RowOfLine(cart[1])
  /\ ledger[Key(1, 1)].ounces_on_hand = 0

\* C18: when process_order reports "Order failed: ... No items were
\* charged.", no line of the cart has been recorded: the sales log and every
\* ledger entry are exactly as before the call
C18_NoItemsCharged ==
  [][ (process_order /\ last'.result \in OrderFailures)
        => (sales' = sales /\ ledger' = ledger)
    ]_vars

\* C19 as stated: in every reachable state a ledger entry with nothing on
\* hand has average cost 0, an entry purchased into and then sold down to
\* exactly zero included
C19_EmptyEntryHasNoCost ==
  \A k \in DOMAIN ledger :
    ledger[k].ounces_on_hand = 0 => ledger[k].avg_cost_per_oz = Zero

\* C19, amended: in every reachable state a ledger entry with nothing on
\* hand has average cost 0 as long as no sale has been recorded at its key;
\* a sale leaves the average cost as it is, so an entry sold down to exactly
\* zero keeps the average cost it had
C19_EmptyUnsoldEntryHasNoCost ==
  \A k \in DOMAIN ledger :
    (ledger[k].ounces_on_hand = 0 /\ RowsAt(sales, k) = <<>>)
      => ledger[k].avg_cost_per_oz = Zero

\* an entry that purchases have brought to zero ounces, with no sale at it
C19_Witness ==
  \E k \in DOMAIN ledger :
    /\ ledger[k].ounces_on_hand = 0
    /\ RowsAt(purchases, k) # <<>>
    /\ RowsAt(sales, k) = <<>>
    /\ last = [op |-> "record_purchase", result |-> "ok"]

\* C20 as stated: purchasing 2 containers of a flavor costing 2.00 dollars a
\* container into an empty ledger entry yields 1280 oz on hand and an average
\* unit cost of 2.00
C20_TwoContainersCostTwoDollars ==
  [][ \A l \in LocArgs, f \in FlavorIds, d \in DateArgs :
        ( /\ FLAVORS[f].cost_per_container = 200
          /\ OnHand(ledger, Key(l, f)) = 0
          /\ RecordPurchase(l, f, 2, d) )
          => ledger'[Key(l, f)] = [ounces_on_hand |-> 1280, avg_cost_per_oz |-> <<200, 1>>]
    ]_vars

\* C20, amended: the purchase yields 1280 oz on hand and an average unit
\* cost of 4.00 / 1280 = 0.003125 dollars per ounce (5/16 of a cent), which
\* is 2.00 dollars per 640 oz container
C20_TwoContainersCostPerOunce ==
  [][ \A l \in LocArgs, f \in FlavorIds, d \in DateArgs :
        ( /\ FLAVORS[f].cost_per_container = 200
          /\ OnHand(ledger, Key(l, f)) = 0
          /\ RecordPurchase(l, f, 2, d) )
          => ledger'[Key(l, f)] = [ounces_on_hand |-> 1280, avg_cost_per_oz |-> <<5, 16>>]
    ]_vars

\* the only event at an entry is a purchase of 2 containers at 200 cents
C20_Witness ==
  /\ last = [op |-> "record_purchase", result |-> "ok"]
  /\ \E k \in DOMAIN ledger :
       /\ RowsAt(sales, k) = <<>>
       /\ Len(RowsAt(purchases, k)) = 1
       /\ RowsAt(purchases, k)[1].containers = 2
       /\ RowsAt(purchases, k)[1].cost_per_container = 200
       /\ ledger[k].ounces_on_hand = 1280

(***************************************************************************)
(* Claims C21..C30.                                                        *)
(***************************************************************************)

\* C21: record_sale with a size other than Kiddie, Small, Medium, Large
\* fails with "Invalid size" and touches nothing: no sale row is appended
\* and no ledger entry changes; hence every sale row on record has one of
\* the four sizes
C21_InvalidSizeRejected ==
  /\ [](\A i \in DOMAIN sales : sales[i].size \in {"Kiddie", "Small", "Medium", "Large"})
  /\ [][ \A l \in LocArgs, f \in FlavorArgs, s \in SizeArgs, ct \in ContainerTypeArgs,
            q \in QtyArgs, d \in DateArgs :
           (s \notin {"Kiddie", "Small", "Medium", "Large"} /\ RecordSale(l, f, s, ct, q, d))
             => /\ last'.result = "Invalid size"
                /\ UNCHANGED dbvars
       ]_vars

\* a Jumbo has just been refused at an entry that could have served it
C21_Witness ==
  /\ last = [op |-> "record_sale", result |-> "Invalid size"]
  /\ \E k \in DOMAIN ledger : ledger[k].ounces_on_hand >= 640

\* C22: a report requested for a month outside 1..12 fails instead of
\* returning a statement: no income statement and no flavor sales report
\* that was produced for such a month has the result "ok".
C22_BadMonthRejected ==
  (report.op \in {"generate_income_statement", "generate_flavor_sales_report"}
     /\ report.month \notin 1 .. 12)
    => report.result # "ok"

\* C23: record_purchase and record_sale accept an explicit date only if it
\* is a valid calendar date of the form YYYY-MM-DD, so every event in the
\* two logs carries a valid date.
C23_EveryEventHasCalendarDate ==
  /\ \A i \in DOMAIN sales : IsCalendarDate(sales[i].sale_date)
  /\ \A i \in DOMAIN purchases : IsCalendarDate(purchases[i].purchase_date)

\* the log after is the log before, or the log before with one record added
Extended(before, after) ==
  /\ Len(after) = Len(before) + 1
  /\ SubSeq(after, 1, Len(before)) = before

\* C24: the two event logs are append-only.  Every operation leaves both
\* logs as they were or appends exactly one record to one of them, so no
\* recorded event is modified or deleted; and every Purchase record holds
\* the cost_per_container of its flavor as it was read when the purchase
\* was recorded, in every later state too.
C24_LogsAppendOnly ==
  /\ [](\A i \in DOMAIN purchases :
          /\ purchases[i].flavor_id \in FlavorIds
          /\ purchases[i].cost_per_container
               = FLAVORS[purchases[i].flavor_id].cost_per_container)
  /\ [][ \/ UNCHANGED <<purchases, sales>>
         \/ Extended(purchases, purchases') /\ UNCHANGED sales
         \/ Extended(sales, sales') /\ UNCHANGED purchases
       ]_vars

\* a purchase was recorded and a sale has been recorded after it
C24_Witness ==
  /\ Len(purchases) >= 1
  /\ Len(sales) >= 1
  /\ last = [op |-> "record_sale", result |-> "ok"]
  /\ \E k \in DOMAIN ledger : ledger[k].ounces_on_hand = 0

\* C25: the napkin cost of a location's income statement is the fixed
\* per-order cost times the number of orders, an order being one sale row
\* of the location in the month: a row with quantity 40 counts once
\* (stated for logs whose sales all have a quantity of at least one).
C25_NapkinsPerOrder ==
  (/\ report.op = "generate_income_statement"
   /\ report.result = "ok"
   /\ \A j \in DOMAIN sales : sales[j].quantity >= 1)
    => \A i \in DOMAIN report.statements, l \in DOMAIN locations :
         locations[l] = report.statements[i].name
           => report.statements[i].st.cogs_napkins
                = FracTimes(Len(SalesOfLocationIn(l, report.year, report.month)),
                            NAPKIN_COST_PER_ORDER)

\* C26: record_sale with a container type that is not in the catalog
\* records nothing, so every Sale row references an existing container
\* type and generate_income_statement can always look its cost up.
C26_SalesNameKnownContainers ==
  /\ \A i \in DOMAIN sales : sales[i].container_type_id \in DOMAIN CONTAINERS
  /\ report.op = "generate_income_statement" => report.result = "ok"

C28_LedgerMatchesLogs ==
  \A k \in DOMAIN ledger :
    ledger[k].ounces_on_hand
      = 640 * ContainersBought(RowsAt(purchases, k)) - OuncesSold(RowsAt(sales, k))

\* the (location, flavor) pairs with a sale dated from the first day of the
\* month to the day before the first day of the next month
PairsSoldIn(year, month) ==
  { Key(sales[i].location_id, sales[i].flavor_id) :
      i \in { j \in DOMAIN sales :
                /\ ~StrLess(sales[j].sale_date, _month_bounds(year, month).start)
                /\ StrLess(sales[j].sale_date, _month_bounds(year, month).end) } }

\* the ounces of the sales of the pair dated in the month
OuncesOfPairIn(k, year, month) ==
  OuncesSold(SelectSeq(RowsAt(sales, k),
               LAMBDA r : /\ ~StrLess(r.sale_date, _month_bounds(year, month).start)
                          /\ StrLess(r.sale_date, _month_bounds(year, month).end)))

\* the rows of the report that carry the names of the pair
RowsOfPair(out, k) ==
  { i \in DOMAIN out : /\ out[i].Location = LocName(locations, k[1])
                       /\ out[i].Flavor = FlavorName(k[2]) }

\* the report has one row for each pair sold in the month and no other row,
\* each with the ounces of the pair
FlavorRows ==
  (report.op = "generate_flavor_sales_report" /\ report.result = "ok")
    => /\ Len(report.out) = Cardinality(PairsSoldIn(report.year, report.month))
       /\ \A k \in PairsSoldIn(report.year, report.month) :
            /\ Cardinality(RowsOfPair(report.out, k)) = 1
            /\ \A i \in RowsOfPair(report.out, k) :
                 report.out[i].Ounces_Sold
                   = OuncesOfPairIn(k, report.year, report.month)

\* the container figure, in hundredths, is the ounces over 640
ExactContainers(oz, hundredths) == 640 * hundredths = 100 * oz

\* the container figure, in hundredths, is the ounces over 640 to within
\* half a hundredth
RoundedContainers(oz, hundredths) ==
  /\ 640 * hundredths - 100 * oz <= 320
  /\ 100 * oz - 640 * hundredths <= 320

\* C29 as stated: the flavor sales report of a month has exactly one row for
\* each (location, flavor) pair with a sale dated in the month, none for
\* other pairs, with the summed ounces of those sales as volume and
\* volume / 640 as container-equivalent (stated for logs whose sales all
\* have a quantity of at least one).
C29_FlavorRowsExact ==
  (\A j \in DOMAIN sales : sales[j].quantity >= 1)
    => /\ FlavorRows
       /\ (report.op = "generate_flavor_sales_report" /\ report.result = "ok")
            => \A i \in DOMAIN report.out :
                 ExactContainers(report.out[i].Ounces_Sold,
                                 report.out[i].Containers_approx)

\* C29 amended: as above, with the container-equivalent being volume / 640
\* rounded to two decimals.
C29_FlavorRowsRounded ==
  /\ FlavorRows
  /\ (report.op = "generate_flavor_sales_report" /\ report.result = "ok")
       => \A i \in DOMAIN report.out :
            RoundedContainers(report.out[i].Ounces_Sold,
                              report.out[i].Containers_approx)

\* a month's report with one row, of a single Large scoop: 16 oz, 0.03
C29_Witness ==
  /\ report.op = "generate_flavor_sales_report"
  /\ report.result = "ok"
  /\ report.month = 12
  /\ Len(report.out) = 1
  /\ report.out[1].Ounces_Sold = 16
  /\ report.out[1].Containers_approx = 3
  /\ Cardinality(DOMAIN ledger) > 1

\* C30: after any sequence of add_to_cart, adjust_qty(+1), adjust_qty(-1),
\* delete_selected_cart_item and process_order, every line of the cart has
\* a quantity of at least 1; a process_order that succeeds appends exactly
\* one sale per line of the cart, in order, and leaves the cart empty; one
\* that fails leaves the cart as it was.
C30_CartLinesPositive ==
  /\ [](\A i \in DOMAIN cart : cart[i].quantity >= 1)
  /\ [][ /\ (process_order
              /\ last'.result = "Thank you! Your order has been processed.")
             => /\ sales' = sales \o [j \in DOMAIN cart |-> RowOfLine(cart[j])]
                /\ cart' = <<>>
         /\ (process_order /\ last'.result \in OrderFailures) => cart' = cart
       ]_vars

\* a line of two items, which only "+ Qty" makes, is in the cart after an
\* order has put sales on record
C30_Witness ==
  /\ last = [op |-> "adjust_qty", result |-> "None"]
  /\ Len(cart) = 1
  /\ cart[1].quantity = 2
  /\ sales # <<>>

====
